---------------------------- MODULE Spec2Model ----------------------------
(***************************************************************************)
(* A model of the chained hash table of src/src/hashtable.c: the           *)
(* murmurhash mixing function, the table record (pp_items, capacity, size, *)
(* prime_index) and the operations ht_create, ht_destroy, ht_insert (with  *)
(* its grow-and-rehash), ht_delete and ht_search.                          *)
(*                                                                         *)
(* A uint32_t is written as a pair <<hi, lo>> of 16-bit halves, because    *)
(* the model checker's integers are narrower than the products the hash    *)
(* forms; every operation below is arithmetic modulo 2^32 on that pair.    *)
(* A size_t is written by its representative in -2^63 .. 2^63-1: a         *)
(* negative number n stands for the unsigned value 2^64 + n.               *)
(***************************************************************************)
EXTENDS Integers, Sequences, FiniteSets, TLC

(***************************************************************************)
(* Bounds of the model.                                                    *)
(***************************************************************************)
\* the largest rank ht_create is called with by the caller, and the largest
\* rank a table may have when an insert is issued
MaxRank == 1
\* the largest number of entries with a key of Keys that a table holds after
\* an insert
MaxNodes == 2
\* the furthest the size counter may be below the number of buckets with a
\* non-null head after a delete
MaxDrift == 2
\* the largest number of allocations of one call that succeed before one
\* fails
MaxFuel == 3

(***************************************************************************)
(* 32-bit unsigned arithmetic on <<hi, lo>>.                               *)
(***************************************************************************)
W16 == 2 ^ 16

\* F of the value of v, with v evaluated once however often F uses it
Let(v, F(_)) == CHOOSE r \in {F(x) : x \in {v}} : TRUE

Pow2(n) == 2 ^ n

U32(hi, lo) == <<hi, lo>>

FromNat(n) == <<n \div W16, n % W16>>

RECURSIVE XorN(_, _)
\* bitwise exclusive or of two naturals
XorN(x, y) ==
    IF x = 0 THEN y
    ELSE IF y = 0 THEN x
    ELSE ((x + y) % 2) + 2 * XorN(x \div 2, y \div 2)

Xor32(a, b) ==
    Let(<<a, b>>, LAMBDA ab : <<XorN(ab[1][1], ab[2][1]), XorN(ab[1][2], ab[2][2])>>)

Add32(a, b) ==
    Let(<<a, b>>, LAMBDA ab :
        Let(ab[1][2] + ab[2][2], LAMBDA lo :
            <<(ab[1][1] + ab[2][1] + (lo \div W16)) % W16, lo % W16>>))

\* a << r for 0 <= r < 16, the bits shifted out are lost
Shl32(a, r) ==
    Let(a, LAMBDA x :
        <<((x[1] % Pow2(16 - r)) * Pow2(r)) + (x[2] \div Pow2(16 - r)),
          (x[2] % Pow2(16 - r)) * Pow2(r)>>)

\* a >> r for 0 <= r <= 16
Shr32(a, r) ==
    Let(a, LAMBDA x :
        IF r = 16 THEN <<0, x[1]>>
        ELSE <<x[1] \div Pow2(r),
               ((x[1] % Pow2(r)) * Pow2(16 - r)) + (x[2] \div Pow2(r))>>)

\* (a << r) | (a >> (32 - r)) for 0 < r < 16
Rotl32(a, r) ==
    Let(a, LAMBDA x :
        <<((x[1] % Pow2(16 - r)) * Pow2(r)) + (x[2] \div Pow2(16 - r)),
          ((x[2] % Pow2(16 - r)) * Pow2(r)) + (x[1] \div Pow2(16 - r))>>)

\* a * c modulo 2^32 for a byte c
MulByte(a, c) ==
    Let(a[2] * c, LAMBDA lo : <<((a[1] * c) + (lo \div W16)) % W16, lo % W16>>)

\* a * b modulo 2^32, b taken a byte at a time
Mul32(a, b) ==
    Let(<<a, b>>, LAMBDA ab :
        LET x == ab[1]
            b0 == ab[2][2] % 256
            b1 == ab[2][2] \div 256
            b2 == ab[2][1] % 256
            b3 == ab[2][1] \div 256
            p0 == MulByte(x, b0)
            p1 == Shl32(MulByte(x, b1), 8)
            p2 == <<MulByte(x, b2)[2], 0>>
            p3 == <<(MulByte(x, b3)[2] % 256) * 256, 0>>
        IN  Add32(Add32(p0, p1), Add32(p2, p3)))

RECURSIVE ModBits(_, _, _, _)
\* the remainder of the n-bit number x, most significant bit first, after
\* the remainder r of the bits already read
ModBits(x, n, r, m) ==
    IF n = 0 THEN r
    ELSE Let((x \div Pow2(n - 1)) % 2, LAMBDA bit :
             Let(IF r >= m - r - bit THEN r - (m - r - bit) ELSE r + r + bit,
                 LAMBDA r1 : ModBits(x, n - 1, r1, m)))

\* a % m for a 32-bit a and 0 < m < 2^31
Mod32(a, m) ==
    Let(ModBits(a[1], 16, 0, m), LAMBDA r : ModBits(a[2], 16, r, m))

(***************************************************************************)
(* Strings.  A key is the sequence of its bytes (each in 1 .. 255); the    *)
(* terminating NUL is the byte read one past the end.  The null char * is  *)
(* written NULL_KEY, a sequence that is no string.                         *)
(***************************************************************************)
NULL_KEY == <<0 - 1>>

\* the byte of s at the 0-based offset i
ByteAt(s, i) == IF i < Len(s) THEN s[i + 1] ELSE 0

strlen(s) == Len(s)

RECURSIVE strncmp_from(_, _, _, _)
strncmp_from(s1, s2, n, i) ==
    IF i >= n THEN 0
    ELSE IF ByteAt(s1, i) # ByteAt(s2, i) THEN ByteAt(s1, i) - ByteAt(s2, i)
    ELSE IF ByteAt(s1, i) = 0 THEN 0
    ELSE strncmp_from(s1, s2, n, i + 1)

\* strncmp(s1, s2, n): the difference at the first of the leading n bytes
\* that differ, 0 when none does before a NUL or the n-th byte
strncmp(s1, s2, n) == strncmp_from(s1, s2, n, 0)

\* strcmp(s1, s2): as strncmp with no limit but the NUL
strcmp(s1, s2) == strncmp_from(s1, s2, Len(s1) + Len(s2) + 1, 0)

(***************************************************************************)
(* murmurhash (hashtable.c, lines 319-379).                                *)
(***************************************************************************)
const1 == U32(52382, 11601)     \* 0xcc9e2d51
const2 == U32(7047, 13715)      \* 0x1b873593
shift1 == 15
shift2 == 13
multiplier == 5
adder == U32(58964, 27492)      \* 0xe6546b64
fmix1 == U32(34283, 51819)      \* 0x85ebca6b
fmix2 == U32(49842, 44597)      \* 0xc2b2ae35

\* the 4-byte chunk at the 0-based chunk index c, read as the build's
\* little-endian uint32_t
Chunk(data, c) ==
    U32(ByteAt(data, 4 * c + 3) * 256 + ByteAt(data, 4 * c + 2),
        ByteAt(data, 4 * c + 1) * 256 + ByteAt(data, 4 * c))

\* key_chunk *= const1; rotate left shift1; key_chunk *= const2
Scramble(key_chunk) == Mul32(Rotl32(Mul32(key_chunk, const1), shift1), const2)

\* one round of the loop over the 4-byte chunks
MixChunk(hash, key_chunk) ==
    Add32(Mul32(Rotl32(Xor32(hash, Scramble(key_chunk)), shift2),
                FromNat(multiplier)),
          adder)

RECURSIVE MixChunks(_, _, _, _)
MixChunks(data, c, chunk_len, hash) ==
    IF c = chunk_len THEN hash
    ELSE Let(MixChunk(hash, Chunk(data, c)),
             LAMBDA h : MixChunks(data, c + 1, chunk_len, h))

\* a tail that is mixed as a whole chunk is, the rotation by shift2, the
\* multiplication and the addition included: HashFollowsPipeline does not
\* hold of it
MixTailAsChunk(data, length, hash) ==
    IF length % 4 = 0 THEN hash
    ELSE MixChunk(hash, Chunk(SubSeq(data, (4 * (length \div 4)) + 1, length), 0))

\* the switch over length & 3, its cases falling through
MixTail(data, length, hash) ==
    LET t == 4 * (length \div 4)
        rem == length % 4
        k3 == IF rem >= 3 THEN U32(ByteAt(data, t + 2), 0) ELSE U32(0, 0)
        k2 == IF rem >= 2 THEN Xor32(k3, U32(0, ByteAt(data, t + 1) * 256))
              ELSE k3
        k1 == Xor32(k2, U32(0, ByteAt(data, t)))
    IN  IF rem = 0 THEN hash ELSE Xor32(hash, Scramble(k1))

\* hash ^= length and the final avalanche
Finalize(hash, length) ==
    Let(Xor32(hash, FromNat(length)), LAMBDA h0 :
        Let(Mul32(Xor32(h0, Shr32(h0, 16)), fmix1), LAMBDA h2 :
            Let(Mul32(Xor32(h2, Shr32(h2, 13)), fmix2), LAMBDA h4 :
                Xor32(h4, Shr32(h4, 16)))))

murmurhash(key_ptr, length, seed) ==
    Finalize(MixTail(key_ptr, length,
                     MixChunks(key_ptr, 0, length \div 4, seed)),
             length)

hash_str(p_key) == murmurhash(p_key, strlen(p_key), U32(0, 0))

\* the keys the caller uses: "r", "rg" and "b".  "r" is a prefix of "rg" and
\* both hash to bucket 13 of 53 and to bucket 47 of 97; "b" hashes elsewhere
Keys == {<<114>>, <<114, 103>>, <<98>>}

\* the keys the caller fills a table with: 42 two-letter keys ("ca", "cb",
\* ...) that hash to 42 different buckets of 53, neither bucket 13 of "r" and
\* "rg" nor bucket 26 of "b" among them; none starts with a key of Keys
Fillers ==
    <<<<99, 97>>, <<99, 98>>, <<99, 99>>, <<99, 100>>, <<99, 101>>, <<99, 102>>,
      <<99, 103>>, <<99, 104>>, <<99, 105>>, <<99, 106>>, <<99, 107>>,
      <<99, 108>>, <<99, 109>>, <<99, 110>>, <<99, 111>>, <<99, 112>>,
      <<99, 113>>, <<99, 114>>, <<99, 116>>, <<99, 117>>, <<99, 118>>,
      <<99, 120>>, <<99, 121>>, <<99, 122>>, <<100, 97>>, <<100, 100>>,
      <<100, 101>>, <<100, 102>>, <<100, 104>>, <<100, 106>>,
      <<100, 115>>, <<100, 117>>, <<101, 101>>, <<101, 104>>, <<101, 105>>,
      <<101, 107>>, <<101, 113>>, <<101, 115>>, <<101, 119>>, <<102, 108>>,
      <<102, 110>>, <<102, 113>>>>

\* 44 more two-letter keys ("ga", "gb", ...): each hashes to a bucket of 53
\* that a filler hashes to, and to a bucket of 97 of its own, not bucket 47 of
\* "r" and "rg" nor bucket 62 of "b"
MoreFillers ==
    <<<<103, 97>>, <<103, 98>>, <<103, 102>>, <<103, 103>>, <<103, 106>>, <<103, 107>>,
      <<103, 109>>, <<103, 112>>, <<103, 114>>, <<103, 116>>, <<103, 117>>, <<103, 122>>,
      <<104, 101>>, <<104, 106>>, <<104, 108>>, <<104, 112>>, <<104, 116>>, <<104, 122>>,
      <<105, 97>>, <<105, 99>>, <<105, 104>>, <<105, 107>>, <<105, 108>>, <<105, 113>>,
      <<105, 118>>, <<106, 99>>, <<106, 114>>, <<106, 115>>, <<106, 116>>, <<106, 121>>,
      <<107, 102>>, <<107, 110>>, <<108, 109>>, <<108, 110>>, <<108, 114>>, <<108, 116>>,
      <<108, 117>>, <<109, 101>>, <<109, 116>>, <<109, 118>>, <<109, 119>>, <<110, 99>>,
      <<110, 100>>, <<110, 107>>>>

\* the fillers and the keys that collide with them in 53 buckets: 86 keys in
\* 42 buckets of 53 and in 79 buckets of 97
DenseFillers == Fillers \o MoreFillers

AllKeys == Keys \cup {DenseFillers[i] : i \in 1 .. Len(DenseFillers)}

\* hash_str of every key the caller uses, computed once
HashOf == [k \in AllKeys |-> hash_str(k)]

(***************************************************************************)
(* error_t (errorcode.h, lines 15-28).                                     *)
(***************************************************************************)
E_SUCCESS == 0
E_GENERAL == 1
E_NULL_PTR == 2
E_NODE_NOT_FOUND == 8

(***************************************************************************)
(* The table (hashtable.h, lines 19-32).  A chain is the sequence of its   *)
(* nodes, head first: p_next of a node is the rest of the sequence.        *)
(* pp_items is written as the function from the indices of its non-null    *)
(* heads to their chains: an index below capacity that is not in its       *)
(* domain holds the null head calloc left there.  The null ht_t * is NULL, *)
(* the null void * is NULL_VALUE.                                          *)
(***************************************************************************)
NULL == [null |-> TRUE]

NULL_VALUE == 0

g_primes ==
    <<53, 97, 193, 389, 769, 1543, 3079, 6151, 12289, 24593, 49157, 98317,
      196613, 393241, 786433, 1572869, 3145739, 6291469, 12582917, 25165843,
      50331653, 100663319, 201326611, 402653189, 805306457, 1610612741>>

\* fuel is the number of allocations that succeed before one fails, and is
\* negative when none fails
AllocFails(fuel) == fuel = 0

AllocDone(fuel) == IF fuel > 0 THEN fuel - 1 ELSE fuel

node_create(p_key, p_value) == [p_key |-> p_key, p_value |-> p_value]

\* an ht_create that leaves prime_index at 0: CapacityFollowsRank does not
\* hold of it
ht_create_unranked(prime_index, fuel) ==
    IF AllocFails(fuel) \/ AllocFails(AllocDone(fuel))
    THEN [ht |-> NULL, fuel |-> AllocDone(fuel), ub |-> FALSE]
    ELSE [ht |-> [pp_items |-> [i \in {} |-> <<>>],
                  capacity |-> g_primes[prime_index + 1],
                  size |-> 0,
                  prime_index |-> 0],
          fuel |-> AllocDone(AllocDone(fuel)),
          ub |-> FALSE]

\* ht_create: the table, or NULL when malloc or calloc fails; ub when the
\* index is past the end of g_primes
ht_create(prime_index, fuel) ==
    IF AllocFails(fuel)
    THEN [ht |-> NULL, fuel |-> fuel, ub |-> FALSE]
    ELSE IF prime_index + 1 > Len(g_primes)
    THEN [ht |-> NULL, fuel |-> AllocDone(fuel), ub |-> TRUE]
    ELSE IF AllocFails(AllocDone(fuel))
    THEN [ht |-> NULL, fuel |-> AllocDone(fuel), ub |-> FALSE]
    ELSE [ht |-> [pp_items |-> [i \in {} |-> <<>>],
                  capacity |-> g_primes[prime_index + 1],
                  size |-> 0,
                  prime_index |-> prime_index],
          fuel |-> AllocDone(AllocDone(fuel)),
          ub |-> FALSE]

\* ht_destroy: every node, the bucket array and the table are released
ht_destroy(p_ht) == IF p_ht = NULL THEN E_NULL_PTR ELSE E_SUCCESS

\* hash % capacity for every key the caller uses and every capacity of
\* g_primes, computed once
IndexOf ==
    [k \in AllKeys |->
        [c \in {g_primes[i] : i \in 1 .. Len(g_primes)} |-> Mod32(HashOf[k], c)]]

\* an index taken modulo the capacity of rank 0 whatever the capacity is:
\* EntriesInHashedBucket does not hold of it
FirstCapacityIndex(p_key, capacity) == IndexOf[p_key][g_primes[1]]

\* hash % capacity
BucketIndex(p_key, capacity) == IndexOf[p_key][capacity]

\* pp_items[index]: the chain at index, empty when the head is null
Bucket(p_ht, index) ==
    IF index \in DOMAIN p_ht.pp_items THEN p_ht.pp_items[index] ELSE <<>>

\* pp_items with the chain at index replaced
SetBucket(pp_items, index, chain) ==
    IF chain = <<>> THEN [i \in DOMAIN pp_items \ {index} |-> pp_items[i]]
    ELSE IF index \in DOMAIN pp_items THEN [pp_items EXCEPT ![index] = chain]
    ELSE (index :> chain) @@ pp_items

\* 0.8 as the comparison sees it: a float exceeds the double 0.8 exactly when
\* the quotient exceeds LoadThreshold / 2^25, half way between the two floats
\* around 0.8
LoadThreshold == 26843545

RECURSIVE ScaledDiv(_, _, _, _)
\* <<quotient, remainder>> of (q * d + r) * 2^n by d, for r < d < 2^24; seven
\* bits of the quotient at a time
ScaledDiv(r, d, n, q) ==
    IF n = 0 THEN <<q, r>>
    ELSE Let(IF n > 7 THEN 7 ELSE n, LAMBDA k :
             Let(r * Pow2(k), LAMBDA x :
                 ScaledDiv(x % d, d, n - k, (q * Pow2(k)) + (x \div d))))

RECURSIVE BitLength(_)
\* the number of bits of n: the least k with n < 2^k
BitLength(n) == IF n = 0 THEN 0 ELSE 1 + BitLength(n \div 2)

\* (float)n for 0 <= n < 2^31, as <<m, e>> with (float)n = m * 2^e and
\* m < 2^24: n itself when it has at most 24 bits, else n rounded to 24 bits,
\* to the nearest and to the even one of two equally near
FloatOf(n) ==
    IF n < W16 * 256 THEN <<n, 0>>
    ELSE LET e == BitLength(n) - 24
             m == n \div Pow2(e)
             rest == n % Pow2(e)
             half == Pow2(e - 1)
             up == rest > half \/ (rest = half /\ m % 2 = 1)
         IN  IF ~up THEN <<m, e>>
             ELSE IF m + 1 = Pow2(24) THEN <<Pow2(23), e + 1>>
             ELSE <<m + 1, e>>

\* a test that asks for a resize only when size is more than capacity:
\* InsertLeavesLoadLow does not hold of it
LoadExceedsOne(size, capacity) == size > capacity

\* (float)size / capacity > 0.8, for a capacity below 2^31 and a size below
\* 2^31 or wrapped below zero (a size_t of 2^64 + size)
LoadExceeds(size, capacity) ==
    IF size < 0 \/ size >= capacity THEN TRUE
    ELSE Let(<<FloatOf(size), FloatOf(capacity)>>, LAMBDA f :
         Let(ScaledDiv(f[1][1] % f[2][1], f[2][1], 25 - (f[2][2] - f[1][2]),
                       f[1][1] \div f[2][1]), LAMBDA qr :
             qr[1] > LoadThreshold \/ (qr[1] = LoadThreshold /\ qr[2] > 0)))

\* the indices 0 .. capacity - 1 in ascending order, those with a null head
\* left out
HeadIndices(p_ht) ==
    SelectSeq([n \in 1 .. p_ht.capacity |-> n - 1],
              LAMBDA i : i \in DOMAIN p_ht.pp_items)

RECURSIVE ChainsOf(_, _, _, _)
\* the chains at the lo-th to the hi-th of the indices idx, one after another
ChainsOf(pp_items, idx, lo, hi) ==
    IF lo > hi THEN <<>>
    ELSE IF lo = hi THEN pp_items[idx[lo]]
    ELSE ChainsOf(pp_items, idx, lo, (lo + hi) \div 2)
            \o ChainsOf(pp_items, idx, ((lo + hi) \div 2) + 1, hi)

\* a resize loop that does not follow p_next and visits the head of each
\* chain only: ResizeKeepsPairs does not hold of it
EntriesHeadsOnly(p_ht) ==
    Let(HeadIndices(p_ht), LAMBDA idx :
        [n \in 1 .. Len(idx) |-> p_ht.pp_items[idx[n]][1]])

\* the nodes in the order the resize loop visits them: bucket by bucket from
\* index 0 up, each chain from its head; the buckets with a null head add
\* nothing
Entries(p_ht) ==
    Let(HeadIndices(p_ht), LAMBDA idx :
        ChainsOf(p_ht.pp_items, idx, 1, Len(idx)))

\* the new node linked at the head of its bucket, size counted up when the
\* bucket was empty
PlaceNode(p_ht, p_key, p_value) ==
    LET index == BucketIndex(p_key, p_ht.capacity)
    IN  [p_ht EXCEPT
            !.size = IF Bucket(p_ht, index) = <<>> THEN @ + 1 ELSE @,
            !.pp_items = SetBucket(@, index,
                             <<node_create(p_key, p_value)>> \o Bucket(p_ht, index))]

\* what an ht_insert hands back: the status, the table *pp_ht refers to when
\* it returns, the fuel left, and ub when it has read through a null key or
\* past the end of g_primes
Returned(ret_, ht, fuel, ub_) == [ret |-> ret_, ht |-> ht, fuel |-> fuel, ub |-> ub_]

\* an ht_insert that counts the bucket before it looks at what node_create
\* returned: NoNodeNoChange does not hold of it
NoNewNodeCounted(st) ==
    Returned(E_NULL_PTR, [st.ht EXCEPT !.size = @ + 1], st.fuel, FALSE)

\* node_create has returned NULL: ht_insert leaves with E_NULL_PTR
NoNewNode(st) == Returned(E_NULL_PTR, st.ht, st.fuel, FALSE)

\* a resize that hands the caller the table ht_create returned, not the table
\* the inserts into it ended in: InsertEndsInOneTable does not hold of it
ResizedToCreated(created, r) == Returned(E_SUCCESS, created, r.fuel, FALSE)

\* every node is in the new table: the old table is destroyed and *pp_ht is
\* set to the table p_new_ht refers to after the inserts, which have
\* replaced the created one if they resized it
Resized(created, r) == Returned(E_SUCCESS, r.ht, r.fuel, FALSE)

\* a failed resize that leaves the handle on the table it was building:
\* FailedResizeKeepsTable does not hold of it
ResizeFailedOnNew(r, placed) == Returned(r.ret, r.ht, r.fuel, r.ub)

\* an insert into the new table has not returned E_SUCCESS: ht_insert leaves
\* with its status, *pp_ht still the table the node was placed in
ResizeFailed(r, placed) == Returned(r.ret, placed, r.fuel, r.ub)

RECURSIVE InsertNodes(_, _, _, _)
\* ht_insert(&ht, key, value) for the lo-th to the hi-th of nodes in turn, ht
\* and the fuel being those of st, stopping at the first insert that does
\* not return E_SUCCESS.  With lo = hi it is one ht_insert: the node placed
\* and, when the load factor exceeds 0.8, every node of the table inserted
\* into a table of the next rank, which then replaces it
InsertNodes(st, nodes, lo, hi) ==
    IF st.ret # E_SUCCESS \/ st.ub \/ lo > hi THEN st
    ELSE IF lo < hi
    THEN Let(InsertNodes(st, nodes, lo, (lo + hi) \div 2), LAMBDA half :
             InsertNodes(half, nodes, ((lo + hi) \div 2) + 1, hi))
    ELSE IF st.ht = NULL THEN Returned(E_NULL_PTR, st.ht, st.fuel, FALSE)
    ELSE IF AllocFails(st.fuel) THEN NoNewNode(st)
    ELSE IF nodes[lo].p_key = NULL_KEY
    THEN Returned(E_GENERAL, st.ht, AllocDone(st.fuel), TRUE)
    ELSE Let(PlaceNode(st.ht, nodes[lo].p_key, nodes[lo].p_value), LAMBDA placed :
         IF ~LoadExceeds(placed.size, placed.capacity)
         THEN Returned(E_SUCCESS, placed, AllocDone(st.fuel), FALSE)
         ELSE Let(<<ht_create(placed.prime_index + 1, AllocDone(st.fuel)),
                    Entries(placed)>>, LAMBDA cn :
              IF cn[1].ub THEN Returned(E_GENERAL, placed, cn[1].fuel, TRUE)
              ELSE Let(InsertNodes(Returned(E_SUCCESS, cn[1].ht, cn[1].fuel, FALSE),
                                   cn[2], 1, Len(cn[2])),
                       LAMBDA r :
                       IF r.ret # E_SUCCESS \/ r.ub
                       THEN ResizeFailed(r, placed)
                       ELSE Resized(cn[1].ht, r))))

\* ht_insert on *pp_ht = p_ht
ht_insert(p_ht, p_key, p_value, fuel) ==
    InsertNodes(Returned(E_SUCCESS, p_ht, fuel, FALSE),
                <<node_create(p_key, p_value)>>, 1, 1)

RECURSIVE FindWholeKey(_, _, _)
\* a match on the whole key, as ht_search compares: DeleteUnlinksFirstMatch
\* does not hold of it
FindWholeKey(chain, p_key, i) ==
    IF i > Len(chain) THEN 0
    ELSE IF strcmp(p_key, chain[i].p_key) = 0 THEN i
    ELSE FindWholeKey(chain, p_key, i + 1)

RECURSIVE FindPrefix(_, _, _)
\* the position of the first node from the i-th on whose key agrees with
\* p_key on strlen(p_key) bytes, 0 when there is none
FindPrefix(chain, p_key, i) ==
    IF i > Len(chain) THEN 0
    ELSE IF strncmp(p_key, chain[i].p_key, strlen(p_key)) = 0 THEN i
    ELSE FindPrefix(chain, p_key, i + 1)

\* an unlink that always drops the head of the chain: DeleteThenAbsent does
\* not hold of it
RemoveHead(chain, i) == Tail(chain)

\* the chain with its i-th node unlinked
RemoveAt(chain, i) == SubSeq(chain, 1, i - 1) \o SubSeq(chain, i + 1, Len(chain))

\* ht_delete: the status and the table after it
ht_delete(p_ht, p_key) ==
    IF p_ht = NULL THEN [ret |-> E_NULL_PTR, ht |-> p_ht]
    ELSE IF p_key = NULL_KEY THEN [ret |-> E_NULL_PTR, ht |-> p_ht]
    ELSE LET index == BucketIndex(p_key, p_ht.capacity)
             at == FindPrefix(Bucket(p_ht, index), p_key, 1)
         IN  IF at = 0 THEN [ret |-> E_NODE_NOT_FOUND, ht |-> p_ht]
             ELSE [ret |-> E_SUCCESS,
                   ht |-> [p_ht EXCEPT
                              !.pp_items = SetBucket(@, index,
                                  RemoveAt(Bucket(p_ht, index), at)),
                              !.size = @ - 1]]

\* a lookup that compares as ht_delete does, on strlen(p_key) bytes:
\* SearchOfNeverInserted does not hold of it
FindStartingWith(chain, p_key, i) == FindPrefix(chain, p_key, i)

RECURSIVE FindEqual(_, _, _)
\* the position of the first node from the i-th on whose key is equal to
\* p_key, 0 when there is none
FindEqual(chain, p_key, i) ==
    IF i > Len(chain) THEN 0
    ELSE IF strcmp(p_key, chain[i].p_key) = 0 THEN i
    ELSE FindEqual(chain, p_key, i + 1)

\* ht_search: the value found, or NULL_VALUE; ub when hash_str reads through
\* a null key
ht_search(p_ht, p_key) ==
    IF p_ht = NULL THEN [ret |-> NULL_VALUE, ub |-> FALSE]
    ELSE IF p_key = NULL_KEY THEN [ret |-> NULL_VALUE, ub |-> TRUE]
    ELSE LET chain == Bucket(p_ht, BucketIndex(p_key, p_ht.capacity))
             at == FindEqual(chain, p_key, 1)
         IN  [ret |-> IF at = 0 THEN NULL_VALUE ELSE chain[at].p_value,
              ub |-> FALSE]

\* a search that moves the node it finds to the head of its chain:
\* SearchLeavesTable does not hold of it
MovedToFront(p_ht, p_key) ==
    LET index == BucketIndex(p_key, p_ht.capacity)
        chain == Bucket(p_ht, index)
        at == FindEqual(chain, p_key, 1)
    IN  IF at = 0 THEN p_ht
        ELSE [p_ht EXCEPT !.pp_items =
                 SetBucket(@, index, <<chain[at]>> \o RemoveAt(chain, at))]

\* the table after ht_search(p_ht, p_key) on a table and a key that are not
\* null: ht_search assigns to its locals hash, index, node and retval only
Searched(p_ht, p_key) == p_ht

(***************************************************************************)
(* The heap.  A block is known by its address, 0 being NULL; within a call *)
(* malloc returns the addresses h.top + 1, h.top + 2, ... and free gives   *)
(* none back, so that a block freed and a block allocated later in the     *)
(* same call are never confused.                                           *)
(* A heap is the blocks by address, the addresses freed in the call that   *)
(* is running, the last address allocated, and what went wrong, if         *)
(* anything: a block read or written after its free, a block freed twice.  *)
(***************************************************************************)
NoMemory == [blocks |-> <<>>, freed |-> {}, top |-> 0, fault |-> "none"]

Faulted(h) == h.fault # "none"

Live(h, a) == a \in DOMAIN h.blocks /\ a \notin h.freed

\* malloc or calloc: the block is at address h.top + 1
Alloc(h, block) ==
    [h EXCEPT !.top = @ + 1, !.blocks = ((h.top + 1) :> block) @@ @]

\* a read or a write of the block at a
Touch(h, a) ==
    IF Live(h, a) \/ Faulted(h) THEN h ELSE [h EXCEPT !.fault = "use after free"]

\* free(a)
Free(h, a) ==
    IF Faulted(h) THEN h
    ELSE IF Live(h, a) THEN [h EXCEPT !.freed = @ \cup {a}]
    ELSE [h EXCEPT !.fault = "double free"]

\* the call has returned: what it freed is gone
Purge(h) ==
    [h EXCEPT !.blocks = [a \in DOMAIN h.blocks \ h.freed |-> h.blocks[a]],
              !.freed = {}]

\* pp_items[index] of the bucket array at items
Cell(h, items, index) ==
    IF index \in DOMAIN h.blocks[items].cells
    THEN h.blocks[items].cells[index] ELSE 0

\* the bucket array with pp_items[index] = a
SetCell(cells, index, a) ==
    IF a = 0 THEN [i \in DOMAIN cells \ {index} |-> cells[i]]
    ELSE (index :> a) @@ cells

RECURSIVE ChainAddrs(_, _, _)
\* the addresses of the chain that starts at a, at most n of them, up to the
\* first that is not the address of a block
ChainAddrs(h, a, n) ==
    IF a = 0 \/ n = 0 THEN <<>>
    ELSE IF a \notin DOMAIN h.blocks THEN <<a>>
    ELSE <<a>> \o ChainAddrs(h, h.blocks[a].p_next, n - 1)

\* the set of the elements of a sequence
Range(seq) == {seq[i] : i \in 1 .. Len(seq)}

RECURSIVE Dedup(_, _)
\* seq without the elements of seen and without repetitions
Dedup(seq, seen) ==
    IF seq = <<>> THEN <<>>
    ELSE IF Head(seq) \in seen THEN Dedup(Tail(seq), seen)
    ELSE <<Head(seq)>> \o Dedup(Tail(seq), seen \cup {Head(seq)})

\* the indices of the non-null heads of the bucket array at items, ascending
HeadsOf(h, items, capacity) ==
    SelectSeq([n \in 1 .. capacity |-> n - 1],
              LAMBDA i : i \in DOMAIN h.blocks[items].cells)

RECURSIVE ChainsFrom(_, _, _, _)
\* the addresses of the chains at the i-th and the later indices of idx
ChainsFrom(h, items, idx, i) ==
    IF i > Len(idx) THEN <<>>
    ELSE ChainAddrs(h, h.blocks[items].cells[idx[i]], h.top)
            \o ChainsFrom(h, items, idx, i + 1)

\* the blocks of h in the order the table at t reaches them: the table, its
\* bucket array, the nodes bucket by bucket; then the blocks it does not
\* reach, by address
Reached(h, t) ==
    LET items == IF t \in DOMAIN h.blocks THEN h.blocks[t].pp_items ELSE 0
        walk == IF t \notin DOMAIN h.blocks THEN <<>>
                ELSE IF items \notin DOMAIN h.blocks THEN <<t>>
                ELSE <<t, items>>
                        \o ChainsFrom(h, items,
                               HeadsOf(h, items, h.blocks[t].capacity), 1)
    IN  Dedup(SelectSeq(walk, LAMBDA a : a \in DOMAIN h.blocks)
                  \o SelectSeq([n \in 1 .. h.top |-> n],
                               LAMBDA a : a \in DOMAIN h.blocks),
              {})

\* the place of the address a in order, 0 for NULL, -1 for an address that
\* is not in it
NewAddr(order, a) ==
    IF a = 0 THEN 0
    ELSE IF a \in Range(order) THEN CHOOSE i \in 1 .. Len(order) : order[i] = a
    ELSE 0 - 1

\* the block b with its pointers renamed
Renamed(b, order) ==
    IF "p_next" \in DOMAIN b THEN [b EXCEPT !.p_next = NewAddr(order, @)]
    ELSE IF "cells" \in DOMAIN b
    THEN [cells |-> [i \in DOMAIN b.cells |-> NewAddr(order, b.cells[i])]]
    ELSE [b EXCEPT !.pp_items = NewAddr(order, @)]

\* the heap between two calls, *pp_ht = t: what the call freed is gone, and
\* the blocks left are renamed 1, 2, ... in the order of Reached.  The code
\* never compares addresses nor computes with them, so the addresses malloc
\* returned do not matter to the calls that follow
Settled(h, t) ==
    Let(Purge(h), LAMBDA live :
    Let(Reached(live, t), LAMBDA order :
        [h |-> [blocks |-> [n \in 1 .. Len(order) |->
                              Renamed(live.blocks[order[n]], order)],
                freed |-> {},
                top |-> Len(order),
                fault |-> live.fault],
         ht |-> NewAddr(order, t)]))

\* ht_create on the heap: the table record, then the zeroed bucket array
h_create(h, prime_index) ==
    [h |-> Alloc(Alloc(h, [size |-> 0, prime_index |-> prime_index,
                           capacity |-> g_primes[prime_index + 1],
                           pp_items |-> h.top + 2]),
                 [cells |-> <<>>]),
     ht |-> h.top + 1]

\* a loop of ht_destroy that frees the node before it reads its p_next:
\* HeapBalanced does not hold of it
DestroyChainFreedFirst(h, current) ==
    IF current = 0 THEN h ELSE Touch(Free(h, current), current)

RECURSIVE DestroyChain(_, _)
\* the while loop of ht_destroy: temp = current, current = current->p_next,
\* free(temp)
DestroyChain(h, current) ==
    IF current = 0 \/ Faulted(h) THEN h
    ELSE IF ~Live(h, current) THEN Touch(h, current)
    ELSE Let(h.blocks[current].p_next, LAMBDA next :
             DestroyChain(Free(h, current), next))

RECURSIVE DestroyBuckets(_, _, _, _)
\* the for loop of ht_destroy over the buckets, from the i-th of idx on
DestroyBuckets(h, items, idx, i) ==
    IF i > Len(idx) \/ Faulted(h) THEN h
    ELSE Let(DestroyChain(Touch(h, items), Cell(h, items, idx[i])), LAMBDA h1 :
             DestroyBuckets(h1, items, idx, i + 1))

\* ht_destroy on the heap: every node, then the bucket array, then the table
h_destroy(h, t) ==
    IF t = 0 THEN [h |-> h, ret |-> E_NULL_PTR]
    ELSE IF ~Live(h, t) THEN [h |-> Touch(h, t), ret |-> E_GENERAL]
    ELSE Let(h.blocks[t], LAMBDA tab :
         Let(DestroyBuckets(h, tab.pp_items,
                            HeadsOf(h, tab.pp_items, tab.capacity), 1),
             LAMBDA h1 :
             [h |-> Free(Free(Touch(h1, t), tab.pp_items), t),
              ret |-> E_SUCCESS]))

\* the end of a resize: ht_destroy of the old table at t, then *pp_ht =
\* p_new_ht
Replaced(st, t) ==
    Let(h_destroy(st.h, t), LAMBDA d :
        IF d.ret # E_SUCCESS THEN [h |-> d.h, ht |-> t, ret |-> d.ret]
        ELSE [h |-> d.h, ht |-> st.ht, ret |-> E_SUCCESS])

RECURSIVE h_insert(_, _, _, _)
RECURSIVE ReinsertChain(_, _)
RECURSIVE ReinsertBuckets(_, _, _, _)
\* the while loop of the resize: ht_insert(&p_new_ht, p_node->p_key,
\* p_node->p_value), p_node = p_node->p_next; st is the heap, p_new_ht and the
\* status so far
ReinsertChain(st, p_node) ==
    IF p_node = 0 \/ st.ret # E_SUCCESS \/ Faulted(st.h) THEN st
    ELSE IF ~Live(st.h, p_node) THEN [st EXCEPT !.h = Touch(@, p_node)]
    ELSE Let(h_insert(st.h, st.ht, st.h.blocks[p_node].p_key,
                      st.h.blocks[p_node].p_value), LAMBDA sub :
             IF sub.ret # E_SUCCESS \/ Faulted(sub.h) THEN sub
             ELSE IF ~Live(sub.h, p_node)
             THEN [sub EXCEPT !.h = Touch(@, p_node)]
             ELSE ReinsertChain(sub, sub.h.blocks[p_node].p_next))

\* the for loop of the resize over the buckets of the old table
ReinsertBuckets(st, items, idx, i) ==
    IF i > Len(idx) \/ st.ret # E_SUCCESS \/ Faulted(st.h) THEN st
    ELSE IF ~Live(st.h, items) THEN [st EXCEPT !.h = Touch(@, items)]
    ELSE Let(ReinsertChain(st, Cell(st.h, items, idx[i])), LAMBDA n :
             ReinsertBuckets(n, items, idx, i + 1))

\* ht_insert on the heap, *pp_ht = t, no allocation failing: the heap, *pp_ht
\* and the status when it returns
h_insert(h, t, p_key, p_value) ==
    IF t = 0 THEN [h |-> h, ht |-> t, ret |-> E_NULL_PTR]
    ELSE IF ~Live(h, t) \/ ~Live(h, h.blocks[t].pp_items)
    THEN [h |-> [h EXCEPT !.fault = "use after free"], ht |-> t,
          ret |-> E_GENERAL]
    ELSE Let(<<h.top + 1, h.blocks[t]>>, LAMBDA nt :
         Let(<<BucketIndex(p_key, nt[2].capacity),
               Alloc(h, [p_key |-> p_key, p_value |-> p_value, p_next |-> 0])>>,
             LAMBDA ih :
         Let(Cell(ih[2], nt[2].pp_items, ih[1]), LAMBDA head :
         Let([ih[2] EXCEPT
                 !.blocks[t].size = IF head = 0 THEN @ + 1 ELSE @,
                 !.blocks[nt[1]].p_next = head,
                 !.blocks[nt[2].pp_items].cells = SetCell(@, ih[1], nt[1])],
             LAMBDA placed :
         IF ~LoadExceeds(placed.blocks[t].size, nt[2].capacity)
         THEN [h |-> placed, ht |-> t, ret |-> E_SUCCESS]
         ELSE Let(h_create(placed, nt[2].prime_index + 1), LAMBDA c :
              Let(ReinsertBuckets([h |-> c.h, ht |-> c.ht, ret |-> E_SUCCESS],
                                  nt[2].pp_items,
                                  HeadsOf(placed, nt[2].pp_items, nt[2].capacity),
                                  1), LAMBDA r :
                  IF r.ret # E_SUCCESS \/ Faulted(r.h)
                  THEN [h |-> r.h, ht |-> t, ret |-> r.ret]
                  ELSE Replaced(r, t)))))))

RECURSIVE DeleteWalk(_, _, _, _, _, _)
\* the while loop of ht_delete: node is the address in *node, prev the node
\* whose p_next *node is, 0 when *node is the head of the bucket
DeleteWalk(h, t, index, p_key, prev, node) ==
    IF node = 0 THEN [h |-> h, ret |-> E_NODE_NOT_FOUND]
    ELSE IF ~Live(h, node) THEN [h |-> Touch(h, node), ret |-> E_GENERAL]
    ELSE IF strncmp(p_key, h.blocks[node].p_key, strlen(p_key)) = 0
    THEN Let(IF prev = 0
             THEN [h EXCEPT !.blocks[h.blocks[t].pp_items].cells =
                                SetCell(@, index, h.blocks[node].p_next)]
             ELSE [h EXCEPT !.blocks[prev].p_next = h.blocks[node].p_next],
             LAMBDA unlinked :
         Let(Touch(Free(unlinked, node), t), LAMBDA freed :
             [h |-> IF Faulted(freed) THEN freed
                    ELSE [freed EXCEPT !.blocks[t].size = @ - 1],
              ret |-> E_SUCCESS]))
    ELSE DeleteWalk(h, t, index, p_key, node, h.blocks[node].p_next)

\* ht_delete on the heap
h_delete(h, t, p_key) ==
    IF t = 0 THEN [h |-> h, ret |-> E_NULL_PTR]
    ELSE IF ~Live(h, t) \/ ~Live(h, h.blocks[t].pp_items)
    THEN [h |-> [h EXCEPT !.fault = "use after free"], ret |-> E_GENERAL]
    ELSE Let(BucketIndex(p_key, h.blocks[t].capacity), LAMBDA index :
             DeleteWalk(h, t, index, p_key, 0,
                        Cell(h, h.blocks[t].pp_items, index)))

RECURSIVE SearchWalk(_, _, _)
\* the while loop of ht_search
SearchWalk(h, p_key, current) ==
    IF current = 0 THEN [h |-> h, ret |-> NULL_VALUE]
    ELSE IF ~Live(h, current) THEN [h |-> Touch(h, current), ret |-> NULL_VALUE]
    ELSE IF strcmp(p_key, h.blocks[current].p_key) = 0
    THEN [h |-> h, ret |-> h.blocks[current].p_value]
    ELSE SearchWalk(h, p_key, h.blocks[current].p_next)

\* ht_search on the heap
h_search(h, t, p_key) ==
    IF t = 0 THEN [h |-> h, ret |-> NULL_VALUE]
    ELSE IF ~Live(h, t) \/ ~Live(h, h.blocks[t].pp_items)
    THEN [h |-> [h EXCEPT !.fault = "use after free"], ret |-> NULL_VALUE]
    ELSE SearchWalk(h, p_key,
                    Cell(h, h.blocks[t].pp_items,
                         BucketIndex(p_key, h.blocks[t].capacity)))

(***************************************************************************)
(* The caller: one handle p_ht, and the calls it makes on it.              *)
(***************************************************************************)
VARIABLES
    p_ht,   \* the caller's ht_t *: a table, or NULL before ht_create and
            \* after ht_destroy
    ret,    \* what the last call returned: an error_t, or the void * of
            \* ht_search
    op,     \* the last call: its name, its key argument, the allocation
            \* that failed in it, and whether it left the handle on another
            \* table than it found there
    last,   \* for each key, <<v>> when the last ht_insert of the key returned
            \* E_SUCCESS with value v and no ht_delete of the key or of a
            \* prefix of the key was called since; <<>> otherwise
    ub,     \* a call has read through a null pointer: what the program does
            \* from there on is undefined
    inserted, \* the keys an ht_insert has linked a node for into the table
            \* the caller holds, since the ht_create of that table
    mem     \* the blocks malloc and calloc have returned and free has not
            \* been given, where the table is followed block by block
            \* (HeapSpec): p_ht is then the address of the table, 0 for NULL

vars == <<p_ht, ret, op, last, ub, inserted, mem>>

\* the values the caller stores: two opaque non-null references
Values == {1, 2}

KeyArgs == Keys \cup {NULL_KEY}

\* the allocations of one call: every one succeeds (-1), or the one after
\* fuel successes fails
Fuels == (0 - 1) .. MaxFuel

\* what a call that has run into undefined behaviour may be seen to return:
\* any error_t or void * of the model
UBReturns ==
    {E_SUCCESS, E_GENERAL, E_NULL_PTR, E_NODE_NOT_FOUND, NULL_VALUE} \cup Values

NoExpectation == [k \in Keys |-> <<>>]

Call(name, key, failed, swapped) ==
    [name |-> name, key |-> key, failed |-> failed, swapped |-> swapped]

\* the call has replaced the table before by the table after
Swapped(before, after) ==
    before # NULL /\ after # NULL /\ before.prime_index # after.prime_index

Init ==
    /\ p_ht = NULL
    /\ ret = E_SUCCESS
    /\ op = Call("start", NULL_KEY, "none", FALSE)
    /\ last = NoExpectation
    /\ ub = FALSE
    /\ inserted = {}
    /\ mem = NoMemory

\* p_ht = ht_create(prime_index), called while the caller holds no table
Create ==
    /\ ~ub
    /\ p_ht = NULL
    /\ \E prime_index \in 0 .. MaxRank, fuel \in (0 - 1) .. 1 :
          LET c == ht_create(prime_index, fuel)
          IN  /\ p_ht' = c.ht
              /\ ret' = IF c.ht = NULL THEN E_GENERAL ELSE E_SUCCESS
              /\ op' = Call("create", NULL_KEY,
                            IF c.ht = NULL THEN "table" ELSE "none", FALSE)
              /\ ub' = c.ub
    /\ last' = NoExpectation
    /\ inserted' = {}
    /\ UNCHANGED mem

\* for each of keys in turn: ht_insert(&p_ht, key, value), no allocation
\* failing
FillWith(ht, keys) ==
    InsertNodes(Returned(E_SUCCESS, ht, 0 - 1, FALSE),
                [i \in 1 .. Len(keys) |-> node_create(keys[i], 1)],
                1, Len(keys)).ht

FillAll(ht) == FillWith(ht, Fillers)

\* the nodes of ht whose key is of the set S
NodesWithKey(ht, S) ==
    IF ht = NULL THEN {}
    ELSE {n \in UNION {{<<i, j>> : j \in 1 .. Len(ht.pp_items[i])} :
                           i \in DOMAIN ht.pp_items} :
             ht.pp_items[n[1]][n[2]].p_key \in S}

\* the caller's loop that inserts every filler, into a table of rank 0 that
\* holds no filler yet
Fill ==
    /\ ~ub
    /\ p_ht # NULL
    /\ p_ht.prime_index = 0
    /\ NodesWithKey(p_ht, AllKeys \ Keys) = {}
    /\ p_ht' = FillAll(p_ht)
    /\ ret' = E_SUCCESS
    /\ op' = Call("fill", NULL_KEY, "none", Swapped(p_ht, p_ht'))
    /\ UNCHANGED <<last, ub, inserted, mem>>

\* ht_destroy(p_ht); the caller drops the handle of a destroyed table
Destroy ==
    /\ ~ub
    /\ ret' = ht_destroy(p_ht)
    /\ p_ht' = NULL
    /\ op' = Call("destroy", NULL_KEY, "none", FALSE)
    /\ last' = NoExpectation
    /\ ub' = FALSE
    /\ inserted' = {}
    /\ UNCHANGED mem

\* the state after a call has read through a null pointer: the call returns
\* anything or nothing, and no table is left to observe
Undefined(name, p_key) ==
    /\ ub' = TRUE
    /\ ret' \in UBReturns
    /\ op' = Call(name, p_key, "none", FALSE)
    /\ p_ht' = NULL
    /\ last' = NoExpectation
    /\ inserted' = {}
    /\ UNCHANGED mem

\* more allocations than one ht_insert of the model asks for
Plenty == 1000

\* the allocations ht_insert(&p_ht, p_key, p_value) asks for when none fails
Allocations(ht, p_key) == Plenty - ht_insert(ht, p_key, 1, Plenty).fuel

\* the caller issues an insert only within the bounds of the model
CanInsert ==
    p_ht # NULL => p_ht.prime_index <= MaxRank /\ Cardinality(NodesWithKey(p_ht, Keys)) < MaxNodes

\* ht_insert(&p_ht, p_key, p_value)
Insert ==
    /\ ~ub
    /\ CanInsert
    /\ \E p_key \in KeyArgs :
       \E needed \in {IF p_ht = NULL \/ p_key = NULL_KEY THEN 0
                      ELSE Allocations(p_ht, p_key)} :
       \E p_value \in Values, fuel \in Fuels :
          LET r == ht_insert(p_ht, p_key, p_value, fuel)
              failed == IF p_ht = NULL THEN "none"
                        ELSE IF AllocFails(fuel) THEN "node"
                        ELSE IF fuel > 0 /\ fuel < needed
                        THEN "resize" ELSE "none"
          IN  IF r.ub THEN Undefined("insert", p_key)
              ELSE /\ p_ht' = r.ht
                   /\ ret' = r.ret
                   /\ op' = Call("insert", p_key, failed, Swapped(p_ht, r.ht))
                   /\ last' = IF p_key = NULL_KEY THEN last
                              ELSE [last EXCEPT ![p_key] =
                                       IF r.ret = E_SUCCESS THEN <<p_value>>
                                       ELSE <<>>]
                   /\ ub' = FALSE
                   /\ inserted' = IF p_ht # NULL /\ ~AllocFails(fuel)
                                  THEN inserted \cup {p_key} ELSE inserted
                   /\ UNCHANGED mem

\* ht_insert(NULL, p_key, p_value): the handle-to-handle itself is null
InsertNull ==
    /\ ~ub
    /\ \E p_key \in KeyArgs :
          /\ ret' = E_NULL_PTR
          /\ op' = Call("insert_null", p_key, "none", FALSE)
    /\ UNCHANGED <<p_ht, last, ub, inserted, mem>>

\* the caller issues a delete only within the bounds of the model
CanDelete ==
    p_ht # NULL => Cardinality(DOMAIN p_ht.pp_items) - p_ht.size < MaxDrift

\* ht_delete(p_ht, p_key)
Delete ==
    /\ ~ub
    /\ CanDelete
    /\ \E p_key \in KeyArgs :
          LET r == ht_delete(p_ht, p_key)
          IN  /\ p_ht' = r.ht
              /\ ret' = r.ret
              /\ op' = Call("delete", p_key, "none", FALSE)
              /\ last' = IF p_key = NULL_KEY THEN last
                         ELSE [k \in Keys |->
                                  IF strncmp(p_key, k, strlen(p_key)) = 0
                                  THEN <<>> ELSE last[k]]
    /\ ub' = FALSE
    /\ UNCHANGED <<inserted, mem>>

\* ht_search(p_ht, p_key)
Search ==
    /\ ~ub
    /\ \E p_key \in KeyArgs :
          LET r == ht_search(p_ht, p_key)
          IN  IF r.ub THEN Undefined("search", p_key)
              ELSE /\ ret' = r.ret
                   /\ op' = Call("search", p_key, "none", FALSE)
                   /\ p_ht' = IF p_ht = NULL THEN p_ht
                              ELSE Searched(p_ht, p_key)
                   /\ UNCHANGED <<last, ub, inserted, mem>>

Next ==
    \/ Create
    \/ Fill
    \/ Destroy
    \/ Insert
    \/ InsertNull
    \/ Delete
    \/ Search

Spec == Init /\ [][Next]_vars

\* the table after ht_create(0) and an ht_insert of every dense filler, none
\* of which resizes it: 86 nodes in 42 of its 53 buckets
DenseTable == FillWith(ht_create(0, 0 - 1).ht, DenseFillers)

CascadeInit ==
    /\ p_ht = DenseTable
    /\ ret = E_SUCCESS
    /\ op = Call("fill_dense", NULL_KEY, "none", FALSE)
    /\ last = NoExpectation
    /\ ub = FALSE
    /\ inserted = {}
    /\ mem = NoMemory

CascadeNext ==
    \/ Insert
    \/ Search

\* the calls on a table of rank 0 so filled that the table of rank 1 an
\* insert replaces it with is resized in turn
CascadeSpec == CascadeInit /\ [][CascadeNext]_vars

\* the longest of the byte sequences HashSpec draws in full
MaxHashLen == 4

\* the bytes those sequences are made of
HashBytes == {1, 128, 255}

\* a longer sequence, every prefix of which HashSpec draws too: up to two
\* chunks and a tail of three bytes
LongKey == <<1, 128, 255, 114, 103, 98, 200, 7, 64, 250, 33>>

HashInputs ==
    UNION {[1 .. n -> HashBytes] : n \in 0 .. MaxHashLen}
        \cup {SubSeq(LongKey, 1, n) : n \in 0 .. Len(LongKey)}

Seeds == {U32(0, 0), U32(1, 65535), U32(65535, 65535)}

HashInit ==
    /\ p_ht = NULL
    /\ ret = U32(0, 0)
    /\ op = [name |-> "start", key |-> <<>>, seed |-> U32(0, 0)]
    /\ last = NoExpectation
    /\ ub = FALSE
    /\ inserted = {}
    /\ mem = NoMemory

\* murmurhash(key, length, seed) on the length bytes of key
Murmur ==
    /\ \E key \in HashInputs, seed \in Seeds :
          /\ op' = [name |-> "murmurhash", key |-> key, seed |-> seed]
          /\ ret' = murmurhash(key, Len(key), seed)
    /\ UNCHANGED <<p_ht, last, ub, inserted, mem>>

\* hash_str(key), as ht_insert, ht_delete and ht_search call it
HashStr ==
    /\ \E key \in HashInputs :
          /\ op' = [name |-> "hash_str", key |-> key, seed |-> U32(0, 0)]
          /\ ret' = hash_str(key)
    /\ UNCHANGED <<p_ht, last, ub, inserted, mem>>

HashNext ==
    \/ Murmur
    \/ HashStr

\* the hash functions alone, on byte sequences of every length modulo 4
HashSpec == HashInit /\ [][HashNext]_vars

\* the nodes HeapSpec lets a table hold between calls
MaxLive == 3

HeapInit ==
    /\ p_ht = 0
    /\ ret = E_SUCCESS
    /\ op = Call("start", NULL_KEY, "none", FALSE)
    /\ last = NoExpectation
    /\ ub = FALSE
    /\ inserted = {}
    /\ mem = NoMemory

\* p_ht = ht_create(prime_index), called while the caller holds no table
HeapCreate ==
    /\ ~Faulted(mem)
    /\ p_ht = 0
    /\ \E prime_index \in 0 .. MaxRank :
          LET c == h_create(mem, prime_index)
              s == Settled(c.h, c.ht)
          IN  /\ mem' = s.h
              /\ p_ht' = s.ht
    /\ ret' = E_SUCCESS
    /\ op' = Call("create", NULL_KEY, "none", FALSE)
    /\ UNCHANGED <<last, ub, inserted>>

\* ht_insert(&p_ht, p_key, p_value)
HeapInsert ==
    /\ ~Faulted(mem)
    /\ p_ht # 0
    /\ Cardinality(DOMAIN mem.blocks) < MaxLive + 2
    /\ mem.blocks[p_ht].prime_index <= MaxRank
    /\ \E p_key \in Keys :
          LET r == h_insert(mem, p_ht, p_key, 1)
              s == Settled(r.h, r.ht)
          IN  /\ mem' = s.h
              /\ p_ht' = s.ht
              /\ ret' = r.ret
              /\ op' = Call("insert", p_key, "none", r.ht # p_ht)
    /\ UNCHANGED <<last, ub, inserted>>

\* ht_delete(p_ht, p_key)
HeapDelete ==
    /\ ~Faulted(mem)
    /\ p_ht # 0
    /\ Cardinality(DOMAIN mem.blocks[mem.blocks[p_ht].pp_items].cells)
          - mem.blocks[p_ht].size < MaxDrift
    /\ \E p_key \in Keys :
          LET r == h_delete(mem, p_ht, p_key)
              s == Settled(r.h, p_ht)
          IN  /\ mem' = s.h
              /\ p_ht' = s.ht
              /\ ret' = r.ret
              /\ op' = Call("delete", p_key, "none", FALSE)
    /\ UNCHANGED <<last, ub, inserted>>

\* ht_search(p_ht, p_key)
HeapSearch ==
    /\ ~Faulted(mem)
    /\ p_ht # 0
    /\ \E p_key \in Keys :
          LET r == h_search(mem, p_ht, p_key)
              s == Settled(r.h, p_ht)
          IN  /\ mem' = s.h
              /\ p_ht' = s.ht
              /\ ret' = r.ret
              /\ op' = Call("search", p_key, "none", FALSE)
    /\ UNCHANGED <<last, ub, inserted>>

\* ht_destroy(p_ht); the caller drops the handle of a destroyed table
HeapDestroy ==
    /\ ~Faulted(mem)
    /\ LET r == h_destroy(mem, p_ht)
       IN  /\ mem' = Settled(r.h, 0).h
           /\ ret' = r.ret
    /\ p_ht' = 0
    /\ op' = Call("destroy", NULL_KEY, "none", FALSE)
    /\ UNCHANGED <<last, ub, inserted>>

HeapNext ==
    \/ HeapCreate
    \/ HeapInsert
    \/ HeapDelete
    \/ HeapSearch
    \/ HeapDestroy

\* the calls followed block by block, no allocation failing
HeapSpec == HeapInit /\ [][HeapNext]_vars

\* how far around four fifths of a capacity the sizes of LoadSpec lie
MaxOffset == 8

\* the largest size that is not more than four fifths of capacity
FourFifths(capacity) == (4 * (capacity \div 5)) + ((4 * (capacity % 5)) \div 5)

LoadInit ==
    /\ p_ht = NULL
    /\ ret = FALSE
    /\ op = [name |-> "start", prime_index |-> 0, size |-> 0, capacity |-> 0]
    /\ last = NoExpectation
    /\ ub = FALSE
    /\ inserted = {}
    /\ mem = NoMemory

\* the test of ht_insert on a table of any rank of g_primes whose size, the
\* new node counted, is around four fifths of its capacity
LoadFactor ==
    /\ \E prime_index \in 0 .. (Len(g_primes) - 1),
          offset \in (0 - MaxOffset) .. MaxOffset :
          LET capacity == g_primes[prime_index + 1]
              size == FourFifths(capacity) + offset
          IN  /\ op' = [name |-> "load_factor", prime_index |-> prime_index,
                        size |-> size, capacity |-> capacity]
              /\ ret' = LoadExceeds(size, capacity)
    /\ UNCHANGED <<p_ht, last, ub, inserted, mem>>

LoadNext == LoadFactor

\* the load factor test alone, on sizes and capacities of every rank
LoadSpec == LoadInit /\ [][LoadNext]_vars

(***************************************************************************)
(* The properties.                                                         *)
(***************************************************************************)
\* the <<bucket, position>> pairs of the nodes of ht
Positions(ht) == NodesWithKey(ht, AllKeys)

\* the node of ht at a <<bucket, position>> pair
NodeAt(ht, n) == ht.pp_items[n[1]][n[2]]

\* the (key, value) pairs ht holds
Pairs(ht) == {NodeAt(ht, n) : n \in Positions(ht)}

\* no two nodes of ht hold the same key
DistinctKeys(ht) ==
    Cardinality({NodeAt(ht, n).p_key : n \in Positions(ht)})
        = Cardinality(Positions(ht))

\* the nodes of ht whose key agrees with p_key on its first strlen(p_key)
\* bytes
PrefixMatches(ht, p_key) ==
    {n \in Positions(ht) :
        strncmp(p_key, NodeAt(ht, n).p_key, strlen(p_key)) = 0}

\* C1: a search of a key returns the value of the last successful insert of
\* that key, whenever no delete of the key (nor of a prefix of it) was called
\* after that insert, resizes included: the newest value shadows the older
\* ones.
SearchReturnsLatest ==
    (~ub /\ op.name = "search" /\ op.key \in Keys /\ last[op.key] # <<>>)
        => ret = last[op.key][1]

\* what the calls of a step have added to the table: the node of an insert,
\* the nodes of a fill
Added ==
    IF op'.name = "fill"
    THEN {node_create(Fillers[i], 1) : i \in 1 .. Len(Fillers)}
    ELSE {node_create(op'.key, last'[op'.key][1])}

\* C2: when inserts of pairwise distinct keys trigger a resize and return
\* success, the table the handle then refers to holds exactly the pairs of the
\* table before and the new ones, each node once, and a search of each key
\* returns the value the key was inserted with.
ResizeKeepsPairs ==
    [][(/\ op'.name \in {"insert", "fill"}
        /\ op'.swapped
        /\ ret' = E_SUCCESS
        /\ DistinctKeys(p_ht)
        /\ \A n \in Added : NodesWithKey(p_ht, {n.p_key}) = {})
       => /\ p_ht'.prime_index > p_ht.prime_index
          /\ Pairs(p_ht') = Pairs(p_ht) \cup Added
          /\ Cardinality(Positions(p_ht')) = Cardinality(Pairs(p_ht'))
          /\ \A n \in Pairs(p_ht') :
                ht_search(p_ht', n.p_key) = [ret |-> n.p_value, ub |-> FALSE]]_vars

\* C2 witness: ht_insert("b") has resized a table that held the 42 fillers,
\* all in different buckets, and returned E_SUCCESS
ResizedByInsert ==
    /\ op.name = "insert" /\ op.key = <<98>> /\ op.swapped /\ ret = E_SUCCESS
    /\ p_ht.prime_index = 1
    /\ DistinctKeys(p_ht)
    /\ Cardinality(Positions(p_ht)) = Len(Fillers) + 1
    /\ ht_search(p_ht, <<98>>).ret \in Values
    /\ ht_search(p_ht, Fillers[1]).ret = 1

\* C3: when the node with key k is the only node of the table whose key
\* agrees with k on its first strlen(k) bytes, delete(k) returns E_SUCCESS and
\* a search of k after it returns NULL.
DeleteThenAbsent ==
    [][(/\ op'.name = "delete"
        /\ op'.key \in Keys
        /\ p_ht # NULL
        /\ Cardinality(PrefixMatches(p_ht, op'.key)) = 1
        /\ \A n \in PrefixMatches(p_ht, op'.key) :
              NodeAt(p_ht, n).p_key = op'.key)
       => /\ ret' = E_SUCCESS
          /\ ht_search(p_ht', op'.key) = [ret |-> NULL_VALUE, ub |-> FALSE]]_vars

\* C3 witness: delete("rg") has returned E_SUCCESS on a table that held one
\* node with a key starting with "rg", below the node of "r" in its chain,
\* which is still there
DeletedOnlyMatch ==
    /\ op.name = "delete" /\ op.key = <<114, 103>> /\ ret = E_SUCCESS
    /\ p_ht # NULL
    /\ PrefixMatches(p_ht, <<114, 103>>) = {}
    /\ NodesWithKey(p_ht, {<<114>>}) # {}
    /\ ht_search(p_ht, <<114, 103>>).ret = NULL_VALUE

\* C4: a delete of k on a table that holds no node whose key equals k returns
\* E_NODE_NOT_FOUND and leaves every chain and the size as they were.
DeleteAbsentNotFound ==
    [][(/\ op'.name = "delete"
        /\ op'.key \in Keys
        /\ p_ht # NULL
        /\ NodesWithKey(p_ht, {op'.key}) = {})
       => (ret' = E_NODE_NOT_FOUND /\ p_ht' = p_ht)]_vars

\* C5: the size of a live table is the number of its buckets that hold at
\* least one node.
SizeCountsBuckets ==
    (~ub /\ p_ht # NULL) => p_ht.size = Cardinality(DOMAIN p_ht.pp_items)

\* C6: ht_insert and ht_delete called with a null handle, a null
\* handle-to-handle or a null key return E_NULL_PTR, and read through no null
\* pointer.
NullArgumentsReported ==
    (\/ op.name = "insert_null"
     \/ (op.name \in {"insert", "delete"} /\ op.key = NULL_KEY))
        => (~ub /\ ret = E_NULL_PTR)

\* C7: ht_search never fails: it reads through no null pointer, and returns
\* NULL for a null table, for a null key and for a key the table does not
\* hold.
SearchNeverFails ==
    op.name = "search"
        => /\ ~ub
           /\ (\/ p_ht = NULL
               \/ op.key = NULL_KEY
               \/ NodesWithKey(p_ht, {op.key}) = {}) => ret = NULL_VALUE

\* C8: when node_create cannot allocate the new node, ht_insert returns a
\* failure status, E_NULL_PTR, and the table and the handle are as they were
\* before the call.
NoNodeNoChange ==
    [][(op'.name = "insert" /\ op'.failed = "node")
       => (ret' = E_NULL_PTR /\ ret' # E_SUCCESS /\ p_ht' = p_ht)]_vars

\* C8 witness: an ht_insert of a key has failed for its node on a table that
\* holds nodes, and the table does not hold the key
NodeRefused ==
    /\ op.name = "insert" /\ op.failed = "node" /\ ret = E_NULL_PTR
    /\ op.key \in Keys
    /\ p_ht # NULL
    /\ Positions(p_ht) # {}
    /\ NodesWithKey(p_ht, {op.key}) = {}

\* C9: between calls every node of the table is in the bucket whose index is
\* the hash of its key modulo the capacity of the table, an index below the
\* capacity, also after a resize.
EntriesInHashedBucket ==
    (~ub /\ p_ht # NULL)
        => \A i \in DOMAIN p_ht.pp_items :
              /\ i \in 0 .. (p_ht.capacity - 1)
              /\ p_ht.pp_items[i] # <<>>
              /\ \A j \in 1 .. Len(p_ht.pp_items[i]) :
                    Mod32(HashOf[p_ht.pp_items[i][j].p_key], p_ht.capacity) = i

\* C9 witness: a resize has moved "r" and "rg", which share a bucket, and the
\* fillers to a table of 97 buckets
ResizedChains ==
    /\ op.swapped /\ ret = E_SUCCESS
    /\ p_ht.capacity = 97
    /\ NodesWithKey(p_ht, AllKeys \ Keys) # {}
    /\ \E i \in DOMAIN p_ht.pp_items :
          {p_ht.pp_items[i][j].p_key : j \in 1 .. Len(p_ht.pp_items[i])}
              = {<<114>>, <<114, 103>>}

\* C10: the capacity of the table is g_primes at its prime_index; ht_create of
\* a rank gives a table of that rank with size 0 and every bucket empty; and
\* as long as the handle refers to a table, no call lowers its prime_index.
CapacityFollowsRank ==
    [][/\ p_ht' # NULL => p_ht'.capacity = g_primes[p_ht'.prime_index + 1]
       /\ (op'.name = "create" /\ p_ht' # NULL)
             => /\ p_ht'.size = 0
                /\ DOMAIN p_ht'.pp_items = {}
                /\ \E r \in 0 .. MaxRank :
                      /\ p_ht' = ht_create(r, 0 - 1).ht
                      /\ p_ht'.prime_index = r
                      /\ p_ht'.capacity = g_primes[r + 1]
       /\ (p_ht # NULL /\ p_ht' # NULL)
             => p_ht'.prime_index >= p_ht.prime_index]_vars

\* C10 witness: a delete has removed a node from a table that a resize had
\* moved to rank 1, and the table is still of rank 1 with 97 buckets
DeletedAfterResize ==
    /\ op.name = "delete" /\ ret = E_SUCCESS
    /\ p_ht # NULL
    /\ p_ht.prime_index = 1 /\ p_ht.capacity = 97
    /\ NodesWithKey(p_ht, AllKeys \ Keys) # {}

\* C11: ht_search changes nothing of the table: every chain, in content and
\* in order, the size, the capacity and the prime_index are after the call
\* what they were before it.
SearchLeavesTable ==
    [][(op'.name = "search" /\ ~ub') => p_ht' = p_ht]_vars

\* C11 witness: ht_search("r") has returned the value of a node that is not
\* the head of its chain: the node of "rg" is before it
SearchedBehindHead ==
    /\ op.name = "search" /\ op.key = <<114>> /\ ret \in Values
    /\ p_ht # NULL
    /\ \E i \in DOMAIN p_ht.pp_items :
          /\ Len(p_ht.pp_items[i]) = 2
          /\ p_ht.pp_items[i][1].p_key = <<114, 103>>
          /\ p_ht.pp_items[i][2].p_key = <<114>>

\* C12: ht_search of a key that no ht_insert has put into the table returns
\* NULL, whatever the table holds: keys that begin with the searched key and
\* keys of the same bucket included.
SearchOfNeverInserted ==
    (~ub /\ op.name = "search" /\ op.key \in Keys /\ op.key \notin inserted)
        => ret = NULL_VALUE

\* C12 witness: ht_search("r") has returned NULL on a table "r" was never
\* inserted into, the bucket of "r" holding the node of "rg"
SearchedBesidePrefixed ==
    /\ ~ub /\ op.name = "search" /\ op.key = <<114>> /\ ret = NULL_VALUE
    /\ <<114>> \notin inserted
    /\ p_ht # NULL
    /\ \E j \in 1 .. Len(Bucket(p_ht, BucketIndex(<<114>>, p_ht.capacity))) :
          Bucket(p_ht, BucketIndex(<<114>>, p_ht.capacity))[j].p_key = <<114, 103>>

\* C13: ht_insert replaces the table exactly when, the new node placed, size
\* is more than 0.8 of capacity (5 * size > 4 * capacity); the table made
\* then is of rank prime_index + 1, and otherwise capacity, prime_index and
\* the handle are left as they were.
ResizeExactlyAboveLoad ==
    op.name = "load_factor" => (ret <=> op.size > FourFifths(op.capacity))

\* the string key begins with the string k
StartsWith(key, k) == Len(key) >= Len(k) /\ SubSeq(key, 1, Len(k)) = k

\* C14: an ht_delete(k) that returns E_SUCCESS unlinks one node: the first
\* one, in chain order, of the bucket hash(k) mod capacity whose key agrees
\* with k on the strlen(k) bytes of k, a longer key that starts with k
\* included.  size goes down by one, the bucket emptied or not; the other
\* nodes of the chain keep their order, and the other buckets, capacity and
\* prime_index are unchanged.
DeleteUnlinksFirstMatch ==
    [][(op'.name = "delete" /\ ret' = E_SUCCESS /\ ~ub')
       => LET k == op'.key
              index == Mod32(HashOf[k], p_ht.capacity)
              chain == Bucket(p_ht, index)
              rest == Bucket(p_ht', index)
          IN  /\ p_ht # NULL /\ p_ht' # NULL
              /\ \E j \in 1 .. Len(chain) :
                    /\ StartsWith(chain[j].p_key, k)
                    /\ \A i \in 1 .. (j - 1) :
                          ~StartsWith(chain[i].p_key, k)
                    /\ Len(rest) = Len(chain) - 1
                    /\ \A i \in 1 .. Len(rest) :
                          rest[i] = IF i < j THEN chain[i] ELSE chain[i + 1]
              /\ p_ht'.size = p_ht.size - 1
              /\ \A i \in (DOMAIN p_ht.pp_items \cup DOMAIN p_ht'.pp_items) \ {index} :
                    Bucket(p_ht', i) = Bucket(p_ht, i)
              /\ p_ht'.capacity = p_ht.capacity
              /\ p_ht'.prime_index = p_ht.prime_index]_vars

\* C14 witness: ht_delete("r") has returned E_SUCCESS and has unlinked the
\* node of "rg", the head of the chain, not the node of "r" behind it; size is
\* down to 0 and the bucket is not empty
DeletedLongerKey ==
    /\ ~ub /\ op.name = "delete" /\ op.key = <<114>> /\ ret = E_SUCCESS
    /\ p_ht # NULL
    /\ NodesWithKey(p_ht, {<<114>>}) # {}
    /\ NodesWithKey(p_ht, {<<114, 103>>}) = {}
    /\ <<114, 103>> \in inserted
    /\ p_ht.size = 0

\* C15: when ht_create of the replacement table or an insert into it fails
\* during the resize of an ht_insert, the ht_insert returns a status other
\* than E_SUCCESS, the table it was called on is not destroyed (it holds
\* what it held and the new node), and the handle still refers to it.
FailedResizeKeepsTable ==
    [][(op'.name = "insert" /\ op'.failed = "resize")
       => /\ ret' # E_SUCCESS
          /\ p_ht # NULL /\ p_ht' # NULL
          /\ ~op'.swapped
          /\ \E p_value \in Values : p_ht' = PlaceNode(p_ht, op'.key, p_value)]_vars

\* C15 witness: an ht_insert whose resize ran out of memory has returned
\* E_NULL_PTR; the handle is on the table of rank 0, which holds the fillers
\* and the new node and is loaded above 0.8
ResizeRefused ==
    /\ ~ub /\ op.name = "insert" /\ op.failed = "resize" /\ ret = E_NULL_PTR
    /\ p_ht # NULL
    /\ p_ht.prime_index = 0
    /\ NodesWithKey(p_ht, {op.key}) # {}
    /\ Cardinality(NodesWithKey(p_ht, AllKeys \ Keys)) = Len(Fillers)
    /\ LoadExceeds(p_ht.size, p_ht.capacity)

\* C19: the size counter never wraps below zero: in every state between
\* calls size, read as the size_t it is, is at most the number of non-empty
\* buckets and so at most capacity, whatever inserts and deletes came
\* before.
SizeNeverWraps ==
    (~ub /\ p_ht # NULL)
        => /\ 0 <= p_ht.size
           /\ p_ht.size <= Cardinality(DOMAIN p_ht.pp_items)
           /\ p_ht.size <= p_ht.capacity

\* C20: after every ht_insert that returns E_SUCCESS, the table the handle
\* refers to has size at most 0.8 of capacity (5 * size <= 4 * capacity),
\* resized or not, whatever the chains of the table before were.
InsertLeavesLoadLow ==
    (~ub /\ op.name \in {"insert", "fill", "fill_dense"} /\ ret = E_SUCCESS
        /\ p_ht # NULL)
        => 0 <= p_ht.size /\ p_ht.size <= FourFifths(p_ht.capacity)

\* C20 witness: an ht_insert has resized the table of the 42 fillers and
\* returned E_SUCCESS; the table of 97 buckets has fewer non-empty buckets
\* than the old one had
ResizedBelowLoad ==
    /\ ~ub /\ op.name = "insert" /\ op.swapped /\ ret = E_SUCCESS
    /\ p_ht # NULL
    /\ p_ht.prime_index = 1
    /\ 0 < p_ht.size /\ p_ht.size < Len(Fillers)
    /\ Cardinality(Positions(p_ht)) > Len(Fillers)

\* how many nodes of ht are the pair n
Count(ht, n) == Cardinality({pos \in Positions(ht) : NodeAt(ht, pos) = n})

\* C17: every ht_insert in which no allocation fails comes to an end, also
\* when the inserts into the new table resize that table in turn: it returns
\* E_SUCCESS with the handle on one table, of the rank before or of a later
\* rank of g_primes, that holds every node of the table before and the new
\* node, each as often as before.
InsertEndsInOneTable ==
    [][(/\ op'.name = "insert" /\ ~ub' /\ op'.key \in Keys
        /\ p_ht # NULL /\ op'.failed = "none")
       => /\ ret' = E_SUCCESS
          /\ p_ht' # NULL
          /\ p_ht'.prime_index \in p_ht.prime_index .. (Len(g_primes) - 1)
          /\ LET new == node_create(op'.key, last'[op'.key][1])
             IN  /\ Pairs(p_ht') = Pairs(p_ht) \cup {new}
                 /\ \A n \in Pairs(p_ht') :
                       Count(p_ht', n) = Count(p_ht, n) + IF n = new THEN 1 ELSE 0]_vars

\* C17 witness: an ht_insert into the table of rank 0 that held the 86 dense
\* fillers has returned E_SUCCESS on a table of rank 2: the table of rank 1
\* it made was resized while the nodes were inserted into it
CascadedToRankTwo ==
    /\ ~ub /\ op.name = "insert" /\ op.swapped /\ ret = E_SUCCESS
    /\ p_ht # NULL
    /\ p_ht.prime_index = 2
    /\ Cardinality(NodesWithKey(p_ht, AllKeys \ Keys)) = Len(DenseFillers)
    /\ NodesWithKey(p_ht, {op.key}) # {}

(***************************************************************************)
(* The hash as the specification words it, on 32-bit words written as the  *)
(* set of the positions (0 the least significant) of their bits that are 1.*)
(***************************************************************************)
\* the positions of the 1 bits of the natural n, moved up by from
BitsFrom(n, from) == {from + i : i \in {j \in 0 .. 15 : (n \div Pow2(j)) % 2 = 1}}

\* the word of the model's <<hi, lo>>
BitsOf(w) == BitsFrom(w[2], 0) \cup BitsFrom(w[1], 16)

\* the word of eight hexadecimal digits, the most significant first
HexWord(digits) == UNION {BitsFrom(digits[j], 4 * (8 - j)) : j \in 1 .. 8}

RefXor(a, b) == (a \ b) \cup (b \ a)

RefShl(a, r) == {i + r : i \in {j \in a : j + r <= 31}}

RefShr(a, r) == {i - r : i \in {j \in a : j >= r}}

RefRotl(a, r) == {(i + r) % 32 : i \in a}

RECURSIVE RefAdd(_, _)
\* a + b modulo 2^32: the sum without carries plus the carries moved up
RefAdd(a, b) ==
    IF b = {} THEN a
    ELSE Let(<<RefXor(a, b), RefShl(a \cap b, 1)>>, LAMBDA n : RefAdd(n[1], n[2]))

RECURSIVE RefMulFrom(_, _, _, _)
\* sum plus a times the bits of b from position i on, modulo 2^32
RefMulFrom(a, b, i, sum) ==
    IF i > 31 THEN sum
    ELSE IF i \in b
    THEN Let(RefAdd(sum, RefShl(a, i)), LAMBDA n : RefMulFrom(a, b, i + 1, n))
    ELSE RefMulFrom(a, b, i + 1, sum)

RefMul(a, b) == Let(<<a, b>>, LAMBDA ab : RefMulFrom(ab[1], ab[2], 0, {}))

\* the word of the n bytes of data from the 1-based position at on, the
\* first byte the least significant
RefBytes(data, at, n) == UNION {BitsFrom(data[at + j], 8 * j) : j \in 0 .. (n - 1)}

\* multiply by 0xcc9e2d51, rotate left 15, multiply by 0x1b873593
RefScramble(k) ==
    RefMul(RefRotl(RefMul(k, HexWord(<<12, 12, 9, 14, 2, 13, 5, 1>>)), 15),
           HexWord(<<1, 11, 8, 7, 3, 5, 9, 3>>))

RECURSIVE RefChunks(_, _, _)
\* the hash after the 4-byte chunks from the 1-based position at on: each
\* scrambled and XORed into the hash, the hash rotated left 13, multiplied
\* by 5, 0xe6546b64 added
RefChunks(data, at, h) ==
    IF at + 3 > Len(data) THEN h
    ELSE Let(RefAdd(RefMul(RefRotl(RefXor(h, RefScramble(RefBytes(data, at, 4))), 13),
                           {0, 2}),
                    HexWord(<<14, 6, 5, 4, 6, 11, 6, 4>>)),
             LAMBDA n : RefChunks(data, at + 4, n))

\* the 1 to 3 bytes after the last chunk: scrambled and XORed, no more
RefTail(data, h) ==
    IF Len(data) % 4 = 0 THEN h
    ELSE RefXor(h, RefScramble(RefBytes(data, (4 * (Len(data) \div 4)) + 1,
                                        Len(data) % 4)))

\* XOR with the length, then the 16/13/16 shift-multiply avalanche
RefAvalanche(h, length) ==
    Let(RefXor(h, BitsFrom(length, 0)), LAMBDA h0 :
    Let(RefMul(RefXor(h0, RefShr(h0, 16)),
               HexWord(<<8, 5, 14, 11, 12, 10, 6, 11>>)), LAMBDA h1 :
    Let(RefMul(RefXor(h1, RefShr(h1, 13)),
               HexWord(<<12, 2, 11, 2, 10, 14, 3, 5>>)), LAMBDA h2 :
        RefXor(h2, RefShr(h2, 16)))))

RefHash(data, seed) == RefAvalanche(RefTail(data, RefChunks(data, 1, seed)), Len(data))

\* C18: for every byte sequence and seed the hash is the pipeline of the
\* specification, all arithmetic modulo 2^32: every 4-byte chunk multiplied
\* by 0xcc9e2d51, rotated left 15, multiplied by 0x1b873593 and XORed into
\* the hash, the hash rotated left 13, multiplied by 5, 0xe6546b64 added; the
\* 1 to 3 bytes of the tail the same without the last three steps; then the
\* XOR with the length and the 16/13/16 avalanche.  hash_str is that hash
\* with seed 0 over the strlen bytes of the key.
HashFollowsPipeline ==
    /\ op.name = "murmurhash" => BitsOf(ret) = RefHash(op.key, BitsOf(op.seed))
    /\ op.name = "hash_str" => BitsOf(ret) = RefHash(op.key, {})

\* C18 witness: murmurhash of seven bytes (one chunk and a tail of three)
\* with the seed 0x0001ffff has returned 0x73226cce, the value the code
\* returns
HashedChunkAndTail ==
    /\ op.name = "murmurhash"
    /\ op.key = SubSeq(LongKey, 1, 7)
    /\ op.seed = U32(1, 65535)
    /\ ret = U32(29474, 27854)

\* C16: when no allocation fails, between calls every block allocated is
\* either in use or freed once: the blocks not freed are the table the handle
\* refers to, its bucket array and the nodes of its chains, each node in one
\* chain, once; with no table, no block is left.  No call reads or writes a
\* block after freeing it, and none frees a block twice: ht_delete frees the
\* node it unlinks, a resize the old table with its nodes, ht_destroy every
\* node, the bucket array and the table.
HeapBalanced ==
    /\ mem.fault = "none"
    /\ mem.freed = {}
    /\ IF p_ht = 0 THEN DOMAIN mem.blocks = {}
       ELSE /\ p_ht \in DOMAIN mem.blocks
            /\ mem.blocks[p_ht].pp_items \in DOMAIN mem.blocks
            /\ LET cells == mem.blocks[mem.blocks[p_ht].pp_items].cells
                   chain == [i \in DOMAIN cells |->
                                ChainAddrs(mem, cells[i], MaxLive + 2)]
                   nodes == UNION {Range(chain[i]) : i \in DOMAIN cells}
               IN  /\ \A i \in DOMAIN cells :
                         /\ Cardinality(Range(chain[i])) = Len(chain[i])
                         /\ Len(chain[i]) <= MaxLive + 1
                         /\ \A j \in DOMAIN cells \ {i} :
                               Range(chain[i]) \cap Range(chain[j]) = {}
                   /\ DOMAIN mem.blocks
                         = {p_ht, mem.blocks[p_ht].pp_items} \cup nodes

\* C16 witness: an ht_insert has resized the table and returned E_SUCCESS:
\* the new table, its bucket array and its two nodes are the blocks left,
\* the old table, its bucket array and its nodes are freed
HeapAfterResize ==
    /\ op.name = "insert" /\ op.swapped /\ ret = E_SUCCESS
    /\ p_ht # 0
    /\ mem.fault = "none"
    /\ Cardinality(DOMAIN mem.blocks) = 4
    /\ mem.blocks[p_ht].prime_index = 1
    /\ Cardinality(DOMAIN mem.blocks[mem.blocks[p_ht].pp_items].cells) = 1

====
